---- MODULE Spec2Model ----
(***************************************************************************)
(* Model of LogForwarder/index.js: the New Relic log forwarder for Azure.  *)
(*                                                                         *)
(* Text is a sequence of one-character strings.  A JavaScript value is a   *)
(* record [t, v]: t is the kind ("str", "num", "bool", "null", "undef",    *)
(* "arr", "obj", "buf") and v its content: the characters of a string or   *)
(* buffer, the decimal digits of a number (an epoch in milliseconds is     *)
(* wider than the integers of the checker), the sequence of elements of an *)
(* array, the sequence of [k, v] members of an object in insertion order.  *)
(***************************************************************************)
EXTENDS Integers, Sequences, FiniteSets, TLC

----------------------------------------------------------------------------
(* Text *)

Digits == <<"0", "1", "2", "3", "4", "5", "6", "7", "8", "9">>

UpperCase ==
    <<"A", "B", "C", "D", "E", "F", "G", "H", "I", "J", "K", "L", "M",
      "N", "O", "P", "Q", "R", "S", "T", "U", "V", "W", "X", "Y", "Z">>

LowerCase ==
    <<"a", "b", "c", "d", "e", "f", "g", "h", "i", "j", "k", "l", "m",
      "n", "o", "p", "q", "r", "s", "t", "u", "v", "w", "x", "y", "z">>

WhiteSpace == {" ", "\n", "\t", "\r"}

IsDigit(c) == \E i \in 1..10 : Digits[i] = c

DigitVal(c) == (CHOOSE i \in 1..10 : Digits[i] = c) - 1

LowerChar(c) ==
    IF \E i \in 1..26 : UpperCase[i] = c
    THEN LowerCase[CHOOSE i \in 1..26 : UpperCase[i] = c]
    ELSE c

\* String.prototype.toLowerCase
ToLowerCase(s) == [i \in 1..Len(s) |-> LowerChar(s[i])]

Drop(s, n) == SubSeq(s, n + 1, Len(s))

\* String.prototype.startsWith
StartsWith(s, p) == Len(s) >= Len(p) /\ SubSeq(s, 1, Len(p)) = p

\* The index of the first character of s that is in cs, Len(s) + 1 if none.
FirstIn(s, cs) ==
    IF \E i \in 1..Len(s) : s[i] \in cs
    THEN CHOOSE i \in 1..Len(s) :
           s[i] \in cs /\ \A j \in 1..(i - 1) : s[j] \notin cs
    ELSE Len(s) + 1

\* The index of the last character of s that is not in cs, 0 if none.
LastNotIn(s, cs) ==
    IF \E i \in 1..Len(s) : s[i] \notin cs
    THEN CHOOSE i \in 1..Len(s) :
           s[i] \notin cs /\ \A j \in (i + 1)..Len(s) : s[j] \in cs
    ELSE 0

TrimStart(s) ==
    IF \E i \in 1..Len(s) : s[i] \notin WhiteSpace
    THEN Drop(s, (CHOOSE i \in 1..Len(s) :
                    s[i] \notin WhiteSpace
                    /\ \A j \in 1..(i - 1) : s[j] \in WhiteSpace) - 1)
    ELSE <<>>

TrimEnd(s) == SubSeq(s, 1, LastNotIn(s, WhiteSpace))

\* String.prototype.trim
Trim(s) == TrimEnd(TrimStart(s))

\* String.prototype.split with a one-character separator: the pieces between
\* the separators, in order; a text without the separator is its one piece.
RECURSIVE Split(_, _)
Split(s, sep) ==
    LET i == FirstIn(s, {sep}) IN
    IF i > Len(s) THEN <<s>>
    ELSE <<SubSeq(s, 1, i - 1)>> \o Split(Drop(s, i), sep)

\* String.prototype.replace with a string pattern: the first occurrence only.
Replace(s, pat, by) ==
    LET at == {i \in 1..(Len(s) - Len(pat) + 1) :
                 SubSeq(s, i, i + Len(pat) - 1) = pat}
    IN  IF at = {} THEN s
        ELSE LET i == CHOOSE i \in at : \A j \in at : i <= j
             IN  SubSeq(s, 1, i - 1) \o by \o Drop(s, i + Len(pat) - 1)

RECURSIVE NatToText(_)
NatToText(n) ==
    IF n < 10 THEN <<Digits[n + 1]>>
    ELSE NatToText(n \div 10) \o <<Digits[(n % 10) + 1]>>

----------------------------------------------------------------------------
(* JavaScript values *)

JStr(s) == [t |-> "str", v |-> s]
JNum(n) == [t |-> "num", v |-> n]
JBool(b) == [t |-> "bool", v |-> b]
JNull == [t |-> "null", v |-> <<>>]
JUndef == [t |-> "undef", v |-> <<>>]
JArr(xs) == [t |-> "arr", v |-> xs]
JObj(ms) == [t |-> "obj", v |-> ms]
JBuf(s) == [t |-> "buf", v |-> s]

Member(k, x) == [k |-> k, v |-> x]

\* typeof
TypeOf(x) ==
    CASE x.t = "str" -> "string"
      [] x.t = "num" -> "number"
      [] x.t = "bool" -> "boolean"
      [] x.t = "undef" -> "undefined"
      [] OTHER -> "object"

\* Array.isArray
IsArray(x) == x.t = "arr"

HasKey(o, k) == o.t = "obj" /\ \E i \in 1..Len(o.v) : o.v[i].k = k

\* o.k for a value that is neither null nor undefined: the member's value,
\* undefined when there is none (a string, a number, an array have none of
\* the names this program reads).
Get(o, k) ==
    IF HasKey(o, k)
    THEN o.v[CHOOSE i \in 1..Len(o.v) : o.v[i].k = k].v
    ELSE JUndef

\* A write that adds a member even when the object has one of that name.
PutAgain(o, k, x) == JObj(Append(o.v, Member(k, x)))

\* o.k = x on an object: replaces the member in place, or appends it.
Put(o, k, x) ==
    IF HasKey(o, k)
    THEN JObj([i \in 1..Len(o.v) |->
                 IF o.v[i].k = k THEN Member(k, x) ELSE o.v[i]])
    ELSE JObj(Append(o.v, Member(k, x)))

----------------------------------------------------------------------------
(* JSON.parse and JSON.stringify.  The grammar read is JSON with objects,  *)
(* arrays, strings (escapes \" \\ \/ \n \t \r), non-negative integers,     *)
(* true, false and null, and white space between tokens.                   *)

PFail == [ok |-> FALSE, v |-> JUndef, rest |-> <<>>]

POk(x, rest) == [ok |-> TRUE, v |-> x, rest |-> rest]

Unescape(c) ==
    CASE c = "n" -> "\n"
      [] c = "t" -> "\t"
      [] c = "r" -> "\r"
      [] OTHER -> c

\* The characters of a string literal after its opening quote.
RECURSIVE ParseChars(_, _)
ParseChars(s, acc) ==
    LET i == FirstIn(s, {"\"", "\\", "\n", "\t", "\r"})
        run == SubSeq(s, 1, i - 1)
    IN  IF i > Len(s) THEN PFail
        ELSE IF s[i] = "\"" THEN POk(JStr(acc \o run), Drop(s, i))
        ELSE IF s[i] = "\\"
        THEN IF Len(s) > i /\ s[i + 1] \in {"\"", "\\", "/", "n", "t", "r"}
             THEN ParseChars(Drop(s, i + 1),
                             acc \o run \o <<Unescape(s[i + 1])>>)
             ELSE PFail
        ELSE PFail

\* The digits s begins with.
ParseDigits(s) ==
    LET i == FirstIn(s, {s[j] : j \in {j \in 1..Len(s) : ~IsDigit(s[j])}}) IN
    POk(JNum(SubSeq(s, 1, i - 1)), Drop(s, i - 1))

RECURSIVE ParseValue(_), ParseElements(_, _), ParseMembers(_, _)
ParseValue(s0) ==
    LET s == TrimStart(s0) IN
    IF s = <<>> THEN PFail
    ELSE IF Head(s) = "{"
    THEN IF TrimStart(Tail(s)) # <<>> /\ Head(TrimStart(Tail(s))) = "}"
         THEN POk(JObj(<<>>), Tail(TrimStart(Tail(s))))
         ELSE ParseMembers(Tail(s), JObj(<<>>))
    ELSE IF Head(s) = "["
    THEN IF TrimStart(Tail(s)) # <<>> /\ Head(TrimStart(Tail(s))) = "]"
         THEN POk(JArr(<<>>), Tail(TrimStart(Tail(s))))
         ELSE ParseElements(Tail(s), <<>>)
    ELSE IF Head(s) = "\"" THEN ParseChars(Tail(s), <<>>)
    ELSE IF Head(s) = "0" THEN POk(JNum(<<"0">>), Tail(s))
    ELSE IF IsDigit(Head(s)) THEN ParseDigits(s)
    ELSE IF StartsWith(s, <<"n", "u", "l", "l">>) THEN POk(JNull, Drop(s, 4))
    ELSE IF StartsWith(s, <<"t", "r", "u", "e">>)
    THEN POk(JBool(TRUE), Drop(s, 4))
    ELSE IF StartsWith(s, <<"f", "a", "l", "s", "e">>)
    THEN POk(JBool(FALSE), Drop(s, 5))
    ELSE PFail

ParseElements(s, acc) ==
    LET e == ParseValue(s)
        r == TrimStart(e.rest)
    IN  IF ~e.ok \/ r = <<>> THEN PFail
        ELSE IF Head(r) = "," THEN ParseElements(Tail(r), Append(acc, e.v))
        ELSE IF Head(r) = "]" THEN POk(JArr(Append(acc, e.v)), Tail(r))
        ELSE PFail

ParseMembers(s0, acc) ==
    LET s == TrimStart(s0) IN
    IF s = <<>> \/ Head(s) # "\"" THEN PFail
    ELSE
      LET k == ParseChars(Tail(s), <<>>)
          c == TrimStart(k.rest)
      IN  IF ~k.ok \/ c = <<>> \/ Head(c) # ":" THEN PFail
          ELSE
            LET e == ParseValue(Tail(c))
                r == TrimStart(e.rest)
                o == Put(acc, k.v.v, e.v)
            IN  IF ~e.ok \/ r = <<>> THEN PFail
                ELSE IF Head(r) = "," THEN ParseMembers(Tail(r), o)
                ELSE IF Head(r) = "}" THEN POk(o, Tail(r))
                ELSE PFail

\* String(x): the text JSON.parse reads when it is handed a value that is
\* not a string.
RECURSIVE ToText(_)
ToText(x) ==
    CASE x.t = "str" -> x.v
      [] x.t = "buf" -> x.v
      [] x.t = "num" -> x.v
      [] x.t = "bool" ->
           IF x.v THEN <<"t", "r", "u", "e">> ELSE <<"f", "a", "l", "s", "e">>
      [] x.t = "null" -> <<"n", "u", "l", "l">>
      [] x.t = "undef" -> <<"u", "n", "d", "e", "f", "i", "n", "e", "d">>
      [] x.t = "obj" ->
           <<"[", "o", "b", "j", "e", "c", "t", " ",
             "O", "b", "j", "e", "c", "t", "]">>
      [] x.t = "arr" ->
           IF x.v = <<>> THEN <<>>
           ELSE LET h == IF Head(x.v).t \in {"null", "undef"}
                         THEN <<>> ELSE ToText(Head(x.v))
                IN  IF Len(x.v) = 1 THEN h
                    ELSE h \o <<",">> \o ToText(JArr(Tail(x.v)))

\* JSON.parse(x): [ok, v], ok = FALSE for the SyntaxError it throws.
JSONParse(x) ==
    LET r == ParseValue(ToText(x)) IN
    IF r.ok /\ TrimStart(r.rest) = <<>>
    THEN [ok |-> TRUE, v |-> r.v]
    ELSE [ok |-> FALSE, v |-> JUndef]

Escape(c) ==
    CASE c = "\n" -> "n"
      [] c = "\t" -> "t"
      [] c = "\r" -> "r"
      [] OTHER -> c

RECURSIVE Quote(_)
Quote(s) ==
    LET i == FirstIn(s, {"\"", "\\", "\n", "\t", "\r"}) IN
    IF i > Len(s) THEN s
    ELSE SubSeq(s, 1, i - 1) \o <<"\\", Escape(s[i])>> \o Quote(Drop(s, i))

\* The text JSON.stringify gives for a value other than undefined.  A member
\* whose value is undefined is left out; an undefined element is null.
RECURSIVE StringifyText(_), StringifyElements(_), StringifyMembers(_, _)
StringifyText(x) ==
    CASE x.t = "str" -> <<"\"">> \o Quote(x.v) \o <<"\"">>
      [] x.t = "num" -> x.v
      [] x.t = "bool" ->
           IF x.v THEN <<"t", "r", "u", "e">> ELSE <<"f", "a", "l", "s", "e">>
      [] x.t = "null" -> <<"n", "u", "l", "l">>
      [] x.t = "arr" -> <<"[">> \o StringifyElements(x.v) \o <<"]">>
      [] x.t = "obj" -> <<"{">> \o StringifyMembers(x.v, TRUE) \o <<"}">>

StringifyElements(xs) ==
    IF xs = <<>> THEN <<>>
    ELSE LET h == IF Head(xs).t = "undef"
                  THEN StringifyText(JNull) ELSE StringifyText(Head(xs))
         IN  IF Len(xs) = 1 THEN h
             ELSE h \o <<",">> \o StringifyElements(Tail(xs))

StringifyMembers(ms, first) ==
    IF ms = <<>> THEN <<>>
    ELSE IF Head(ms).v.t = "undef" THEN StringifyMembers(Tail(ms), first)
    ELSE (IF first THEN <<>> ELSE <<",">>)
         \o <<"\"">> \o Quote(Head(ms).k) \o <<"\"", ":">>
         \o StringifyText(Head(ms).v)
         \o StringifyMembers(Tail(ms), FALSE)

\* JSON.stringify(x): a string, or undefined for undefined.
JSONStringify(x) ==
    IF x.t = "undef" THEN JUndef ELSE JStr(StringifyText(x))

----------------------------------------------------------------------------
(* Date.parse, for the ISO form YYYY-MM-DDTHH:MM:SSZ with a year from 1970 *)
(* to 2037; any other text is NaN (ok = FALSE).  The value is the epoch in *)
(* milliseconds, as decimal digits.                                        *)

Num2(s, i) == 10 * DigitVal(s[i]) + DigitVal(s[i + 1])

Num4(s, i) == 100 * Num2(s, i) + Num2(s, i + 2)

IsLeap(y) == (y % 4 = 0 /\ y % 100 # 0) \/ y % 400 = 0

DaysInMonth(y, m) ==
    CASE m = 2 -> IF IsLeap(y) THEN 29 ELSE 28
      [] m \in {4, 6, 9, 11} -> 30
      [] OTHER -> 31

\* Days from 1970-01-01 to the civil date y-m-d.
DaysFromCivil(y0, m, d) ==
    LET y == IF m <= 2 THEN y0 - 1 ELSE y0
        era == y \div 400
        yoe == y - era * 400
        doy == (153 * (IF m > 2 THEN m - 3 ELSE m + 9) + 2) \div 5 + d - 1
        doe == yoe * 365 + yoe \div 4 - yoe \div 100 + doy
    IN  era * 146097 + doe - 719468

IsIsoShape(s) ==
    /\ Len(s) = 20
    /\ \A i \in {1, 2, 3, 4, 6, 7, 9, 10, 12, 13, 15, 16, 18, 19} : IsDigit(s[i])
    /\ s[5] = "-" /\ s[8] = "-" /\ s[11] = "T"
    /\ s[14] = ":" /\ s[17] = ":" /\ s[20] = "Z"

DateParse(s) ==
    IF ~IsIsoShape(s) THEN [ok |-> FALSE, ms |-> <<>>]
    ELSE
      LET y == Num4(s, 1)
          m == Num2(s, 6)
          d == Num2(s, 9)
          hh == Num2(s, 12)
          mm == Num2(s, 15)
          ss == Num2(s, 18)
      IN  IF /\ y \in 1970..2037 /\ m \in 1..12 /\ d \in 1..DaysInMonth(y, m)
             /\ hh \in 0..23 /\ mm \in 0..59 /\ ss \in 0..59
          THEN LET secs == DaysFromCivil(y, m, d) * 86400
                             + hh * 3600 + mm * 60 + ss
               IN  [ok |-> TRUE,
                    ms |-> IF secs = 0 THEN <<"0">>
                           ELSE NatToText(secs) \o <<"0", "0", "0">>]
          ELSE [ok |-> FALSE, ms |-> <<>>]

----------------------------------------------------------------------------
(* Names of members, and text constants of the program *)

K_records == <<"r", "e", "c", "o", "r", "d", "s">>
K_message == <<"m", "e", "s", "s", "a", "g", "e">>
K_resourceId == <<"r", "e", "s", "o", "u", "r", "c", "e", "I", "d">>
K_metadata == <<"m", "e", "t", "a", "d", "a", "t", "a">>
K_azure == <<"a", "z", "u", "r", "e">>
K_subscriptionId ==
    <<"s", "u", "b", "s", "c", "r", "i", "p", "t", "i", "o", "n", "I", "d">>
K_resourceGroup ==
    <<"r", "e", "s", "o", "u", "r", "c", "e", "G", "r", "o", "u", "p">>
K_source == <<"s", "o", "u", "r", "c", "e">>
K_resourceType ==
    <<"r", "e", "s", "o", "u", "r", "c", "e", "T", "y", "p", "e">>
K_displayName == <<"d", "i", "s", "p", "l", "a", "y", "N", "a", "m", "e">>
K_time == <<"t", "i", "m", "e">>
K_timeStamp == <<"t", "i", "m", "e", "S", "t", "a", "m", "p">>
K_timestamp == <<"t", "i", "m", "e", "s", "t", "a", "m", "p">>

SubscriptionsPrefix ==
    <<"/", "s", "u", "b", "s", "c", "r", "i", "p", "t", "i", "o", "n", "s", "/">>
MicrosoftDot == <<"m", "i", "c", "r", "o", "s", "o", "f", "t", ".">>
AzureDot == <<"a", "z", "u", "r", "e", ".">>

----------------------------------------------------------------------------------------------------------------------------------------------
(* Enrichment.  An operation that can throw gives [threw, v]: threw = TRUE *)
(* for the TypeError of reading a member of null or undefined.             *)

Threw == [threw |-> TRUE, v |-> JUndef]

Returned(x) == [threw |-> FALSE, v |-> x]

\* logEntry.metadata after addMetadata, given the pieces of the lower-cased
\* resourceId.
MetadataOf(resourceId) ==
    JObj(<<Member(K_subscriptionId, JStr(resourceId[3]))>>
         \o (IF Len(resourceId) > 4
             THEN <<Member(K_resourceGroup, JStr(resourceId[5]))>>
             ELSE <<>>)
         \o (IF Len(resourceId) > 6 /\ resourceId[7] # <<>>
             THEN <<Member(K_source,
                           JStr(Replace(resourceId[7], MicrosoftDot, AzureDot)))>>
             ELSE <<>>))

\* logEntry.azure after addMetadata.
AzureOf(lower, resourceId) ==
    JObj(<<Member(K_resourceId, JStr(lower))>>
         \o (IF Len(resourceId) > 7
             THEN <<Member(K_resourceType,
                           JStr(resourceId[7] \o <<"/">> \o resourceId[8]))>>
             ELSE <<>>))

\* logEntry.displayName = resourceId[8], undefined when there is no such
\* piece.
SetDisplayName(logEntry, resourceId) ==
    IF Len(resourceId) > 7
    THEN Put(logEntry, K_displayName,
             IF Len(resourceId) > 8 THEN JStr(resourceId[9]) ELSE JUndef)
    ELSE logEntry

\* The body of addMetadata's if.
SetMetadata(logEntry, lower, resourceId) ==
    SetDisplayName(Put(Put(logEntry, K_metadata, MetadataOf(resourceId)),
                       K_azure, AzureOf(lower, resourceId)),
                   resourceId)

SetMetadataFrom(logEntry, lower) ==
    SetMetadata(logEntry, lower, Split(lower, "/"))

IsResourceId(rid) ==
    /\ rid.t # "undef"
    /\ TypeOf(rid) = "string"
    /\ StartsWith(ToLowerCase(rid.v), SubscriptionsPrefix)

AddMetadataFor(logEntry, rid) ==
    IF IsResourceId(rid)
    THEN Returned(SetMetadataFrom(logEntry, ToLowerCase(rid.v)))
    ELSE Returned(logEntry)

addMetadata(logEntry) ==
    IF logEntry.t \in {"null", "undef"} THEN Threw
    ELSE AddMetadataFor(logEntry, Get(logEntry, K_resourceId))

\* x !== undefined && typeof x === 'string' && !isNaN(parsed), for parsed =
\* Date.parse(x) when x is a string.
Parseable(x, parsed) == x.t # "undef" /\ TypeOf(x) = "string" /\ parsed.ok

ParsedDate(x) ==
    IF TypeOf(x) = "string" THEN DateParse(x.v) ELSE [ok |-> FALSE, ms |-> <<>>]

AddTimestampFor(logEntry, time, parsedTime, timeStamp, parsedTimeStamp) ==
    IF Parseable(time, parsedTime)
    THEN Put(logEntry, K_timestamp, JNum(parsedTime.ms))
    ELSE IF Parseable(timeStamp, parsedTimeStamp)
    THEN Put(logEntry, K_timestamp, JNum(parsedTimeStamp.ms))
    ELSE logEntry

AddTimestampOf(logEntry, time, timeStamp) ==
    AddTimestampFor(logEntry, time, ParsedDate(time),
                    timeStamp, ParsedDate(timeStamp))

addTimestamp(logEntry) ==
    IF logEntry.t \in {"null", "undef"} THEN Threw
    ELSE Returned(AddTimestampOf(logEntry, Get(logEntry, K_time),
                                 Get(logEntry, K_timeStamp)))

\* The result of logs.map(f), given f's result for each element: the first
\* throw ends the map.
Mapped(results) ==
    IF \E i \in 1..Len(results) : results[i].threw
    THEN [threw |-> TRUE, v |-> <<>>]
    ELSE [threw |-> FALSE, v |-> [i \in 1..Len(results) |-> results[i].v]]

appendMetaDataToAllLogLines(logs) ==
    Mapped([i \in 1..Len(logs) |-> addMetadata(logs[i])])

appendTimestampToAllLogLines(logs) ==
    Mapped([i \in 1..Len(logs) |-> addTimestamp(logs[i])])

----------------------------------------------------------------------------
(* Normalization.  A line of the context's log is [level, msg].            *)

Info(m) == [level |-> "info", msg |-> m]
Warn(m) == [level |-> "warn", msg |-> m]
Error(m) == [level |-> "error", msg |-> m]

\* A map that keeps every element that parses and falls back on the others.
EachParsedOr(parsed, logs) ==
    [v |-> JArr([i \in 1..Len(parsed) |->
                   IF parsed[i].ok THEN parsed[i].v ELSE logs.v[i]]),
     log |-> <<>>]

\* The result of each JSON.parse of parseData's map, [v, log]: the parsed
\* elements when all parse, logs itself when one throws.
AllParsedOr(parsed, logs) ==
    IF \A i \in 1..Len(parsed) : parsed[i].ok
    THEN [v |-> JArr([i \in 1..Len(parsed) |-> parsed[i].v]), log |-> <<>>]
    ELSE [v |-> logs, log |-> <<>>]

ParsedOr(parsed, logs) ==
    IF parsed.ok THEN [v |-> parsed.v, log |-> <<>>]
    ELSE [v |-> logs, log |-> <<Warn("cannot parse logs to JSON")>>]

\* parseData: [v, log].
parseData(logs) ==
    IF ~IsArray(logs) THEN ParsedOr(JSONParse(logs), logs)
    ELSE AllParsedOr([i \in 1..Len(logs.v) |-> JSONParse(logs.v[i])], logs)

\* x.records.forEach(...) throws a TypeError unless x can be read and its
\* records is an array.
CanEachRecord(x) ==
    x.t \notin {"null", "undef"} /\ IsArray(Get(x, K_records))

RECURSIVE FlattenRecords(_)
FlattenRecords(messages) ==
    IF messages = <<>> THEN <<>>
    ELSE Get(Head(messages), K_records).v \o FlattenRecords(Tail(messages))

\* A record that is the element itself.
Unwrapped(x) == x

WrapMessage(x) == JObj(<<Member(K_message, x)>>)

\* The strings wrapped last to first.
WrapStringsReversed(xs) ==
    [i \in 1..Len(xs) |-> WrapMessage(xs[Len(xs) + 1 - i])]

\* parsedLogs.forEach((logString) => buffer.push({ message: logString }))
WrapStrings(xs) == [i \in 1..Len(xs) |-> WrapMessage(xs[i])]

Normalized(buffer, log, line) ==
    [threw |-> FALSE, buffer |-> buffer, log |-> Append(log, Info(line))]

Unclassified(log) == [threw |-> FALSE, buffer |-> <<>>, log |-> log]

TypeError(log, line) ==
    [threw |-> TRUE, buffer |-> <<>>, log |-> Append(log, Info(line))]

\* transformData after parseData returned parsedLogs, having logged log:
\* [threw, buffer, log].
Classify(parsedLogs, log) ==
    IF ~IsArray(parsedLogs) /\ TypeOf(parsedLogs) = "object"
       /\ parsedLogs.t # "null"
    THEN IF Get(parsedLogs, K_records).t # "undef"
         THEN IF CanEachRecord(parsedLogs)
              THEN Normalized(Get(parsedLogs, K_records).v, log,
                              "Type of logs: records Object")
              ELSE TypeError(log, "Type of logs: records Object")
         ELSE Normalized(<<parsedLogs>>, log, "Type of logs: JSON Object")
    ELSE IF ~IsArray(parsedLogs) THEN Unclassified(log)
    ELSE IF parsedLogs.v = <<>> THEN Unclassified(log)
    ELSE IF TypeOf(parsedLogs.v[1]) = "object" /\ parsedLogs.v[1].t # "null"
    THEN IF Get(parsedLogs.v[1], K_records).t # "undef"
         THEN IF \A i \in 1..Len(parsedLogs.v) : CanEachRecord(parsedLogs.v[i])
              THEN Normalized(FlattenRecords(parsedLogs.v), log,
                              "Type of logs: records Array")
              ELSE TypeError(log, "Type of logs: records Array")
         ELSE Normalized([i \in 1..Len(parsedLogs.v) |->
                            WrapMessage(parsedLogs.v[i])],
                         log, "Type of logs: JSON Array")
    ELSE IF TypeOf(parsedLogs.v[1]) = "string"
    THEN Normalized(WrapStrings(parsedLogs.v), log,
                    "Type of logs: string Array")
    ELSE Unclassified(log)

ClassifyParsed(parsed) == Classify(parsed.v, parsed.log)

transformData(logs) == ClassifyParsed(parseData(logs))

LinesOf(pieces) == JArr([i \in 1..Len(pieces) |-> JStr(pieces[i])])

\* s.trim().split('\n') as an array of strings.
Lines(s) == LinesOf(Split(Trim(s), "\n"))

\* JSON.stringify(x).trim().split('\n'): undefined has no trim.
LinesOfJSON(json) == IF json.t = "undef" THEN Threw ELSE Returned(Lines(json.v))

\* The first lines of main after the key check: the value handed to
\* transformData, [threw, v].
Coerce(logMessages) ==
    IF TypeOf(logMessages) = "string" \/ logMessages.t = "buf"
    THEN Returned(Lines(logMessages.v))
    ELSE IF ~IsArray(logMessages) THEN LinesOfJSON(JSONStringify(logMessages))
    ELSE Returned(logMessages)

----------
(* The inputs of an invocation *)

MaxBatch == 3

MaxRetries == 3

MaxFailures == 3

MaxSplit == 7

TimeText ==
    <<"2", "0", "2", "3", "-", "0", "1", "-", "0", "1", "T", "0", "0", ":",
      "0", "0", ":", "0", "0", "Z">>

ResourceIdText ==
    <<"/", "s", "u", "b", "s", "c", "r", "i", "p", "t", "i", "o", "n", "s",
      "/", "a", "b", "c", "/", "r", "e", "s", "o", "u", "r", "c", "e", "G",
      "r", "o", "u", "p", "s", "/", "r", "g", "1", "/", "p", "r", "o", "v",
      "i", "d", "e", "r", "s", "/", "M", "i", "c", "r", "o", "s", "o", "f",
      "t", ".", "C", "o", "m", "p", "u", "t", "e", "/", "v", "i", "r", "t",
      "u", "a", "l", "M", "a", "c", "h", "i", "n", "e", "s", "/", "v", "m",
      "1">>

\* The input of the end-to-end scenario, as the text handed to main.
E2EText ==
    <<"{", "\"", "t", "i", "m", "e", "\"", ":", "\"", "2", "0", "2", "3",
      "-", "0", "1", "-", "0", "1", "T", "0", "0", ":", "0", "0", ":", "0",
      "0", "Z", "\"", ",", "\"", "r", "e", "s", "o", "u", "r", "c", "e",
      "I", "d", "\"", ":", "\"", "/", "s", "u", "b", "s", "c", "r", "i",
      "p", "t", "i", "o", "n", "s", "/", "a", "b", "c", "/", "r", "e", "s",
      "o", "u", "r", "c", "e", "G", "r", "o", "u", "p", "s", "/", "r", "g",
      "1", "/", "p", "r", "o", "v", "i", "d", "e", "r", "s", "/", "M", "i",
      "c", "r", "o", "s", "o", "f", "t", ".", "C", "o", "m", "p", "u", "t",
      "e", "/", "v", "i", "r", "t", "u", "a", "l", "M", "a", "c", "h", "i",
      "n", "e", "s", "/", "v", "m", "1", "\"", ",", "\"", "m", "e", "s",
      "s", "a", "g", "e", "\"", ":", "\"", "h", "e", "l", "l", "o", "\"",
      "}">>

\* The same input, already parsed.
E2EObject ==
    JObj(<<Member(K_time, JStr(TimeText)),
           Member(K_resourceId, JStr(ResourceIdText)),
           Member(K_message, JStr(<<"h", "e", "l", "l", "o">>))>>)

\* A record of an Azure diagnostic log: resourceId in the platform's upper
\* case, the time under timeStamp.
AzureResourceIdText ==
    <<"/", "S", "U", "B", "S", "C", "R", "I", "P", "T", "I", "O",
      "N", "S", "/", "S", "1", "/", "r", "e", "s", "o", "u", "r",
      "c", "e", "G", "r", "o", "u", "p", "s", "/", "R", "G", "/",
      "p", "r", "o", "v", "i", "d", "e", "r", "s", "/", "M", "i",
      "c", "r", "o", "s", "o", "f", "t", ".", "W", "e", "b", "/",
      "s", "i", "t", "e", "s">>

AzureRecord ==
    JObj(<<Member(K_resourceId, JStr(AzureResourceIdText)),
           Member(K_timeStamp, JStr(TimeText))>>)

\* The i-th small record, {"n": i}.
Sample(i) == JObj(<<Member(<<"n">>, JNum(NatToText(i)))>>)

Samples(lo, hi) == [i \in 1..(hi - lo + 1) |-> Sample(lo + i - 1)]

WrapperOf(recs) == JObj(<<Member(K_records, JArr(recs))>>)

TextOf(x) == JStr(StringifyText(x))

PlainA == JStr(<<"a">>)

PlainB == JStr(<<"b", " ", "c">>)

\* A records object as text, with 0..MaxBatch records.
RecordsTexts == {TextOf(WrapperOf(Samples(1, n))) : n \in 0..MaxBatch}

WellFormedInputs ==
    RecordsTexts \cup
    { JStr(E2EText),
      E2EObject,
      JBuf(StringifyText(WrapperOf(<<AzureRecord>>))),
      WrapperOf(Samples(1, 2)),
      JArr(<<WrapperOf(Samples(1, 1)), WrapperOf(Samples(2, 2))>>),
      JArr(<<TextOf(WrapperOf(Samples(1, 1))), TextOf(WrapperOf(<<>>)),
             TextOf(WrapperOf(Samples(2, 2)))>>),
      JStr(StringifyText(WrapperOf(Samples(1, 1))) \o <<"\n">>
           \o StringifyText(WrapperOf(Samples(2, 2))) \o <<"\n">>),
      TextOf(WrapperOf(<<PlainA, JNum(<<"5">>)>>)),
      JArr(<<PlainA, PlainB>>),
      TextOf(JArr(<<PlainA, PlainB>>)),
      JArr(<<TextOf(Sample(1)), PlainA>>),
      JArr(<<PlainA, TextOf(Sample(1))>>),
      JArr(<<JNum(<<"5">>), PlainA, TextOf(Sample(1))>>),
      JArr(<<TextOf(PlainA), TextOf(PlainB)>>),
      JArr(<<Sample(1), Sample(2)>>),
      JStr(<<"a", "\n", "b", " ", "c">>),
      JStr(<<>>),
      JArr(<<>>),
      JArr(<<JNum(<<"5">>)>>),
      JNum(<<"5">>),
      JNull }

\* Records inputs that are not well formed: a later element without
\* records, a records that is no array, a record that is null; and an
\* invocation whose binding hands main no value.
MalformedInputs ==
    { JArr(<<WrapperOf(Samples(1, 1)), Sample(2)>>),
      JArr(<<TextOf(WrapperOf(Samples(1, 1))), TextOf(PlainA)>>),
      TextOf(JObj(<<Member(K_records, JNum(<<"5">>))>>)),
      TextOf(JObj(<<Member(K_records, JNull)>>)),
      TextOf(WrapperOf(<<Sample(1), JNull>>)),
      JUndef }

\* Records with a resource id, each to be the one record of a records
\* object.  The resource id is the one of the end-to-end scenario cut after
\* "/subscriptions/", after each of its pieces that addMetadata counts, and
\* after "/providers/", where the piece of the source is empty; beside it
\* is a time that parses, or a time that does not and a timeStamp that
\* does, or no time and a metadata of the record's own.
ResourceRecords ==
    LET cuts == {15, 18, 37, 48, 65, 81, 85}
        times ==
            { <<Member(K_time, JStr(TimeText))>>,
              <<Member(K_time, JStr(<<"x">>)),
                Member(K_timeStamp, JStr(TimeText))>>,
              <<Member(K_metadata, JObj(<<Member(<<"n">>, JNum(<<"1">>))>>))>> }
    IN  { JObj(<<Member(K_resourceId, JStr(SubSeq(ResourceIdText, 1, cut)))>>
               \o t) : cut \in cuts, t \in times }

RawInputs ==
    WellFormedInputs \cup MalformedInputs
    \cup {WrapperOf(<<r>>) : r \in ResourceRecords}

\* A key that is not set, and one that is.
Keys(key) == {"", key}

----------------------------------------------------------------------------
(* Configuration, read from the environment when the module is loaded.  A  *)
(* variable of the environment that is not set is <<>>, one that is set is *)
(* <<value>>; a key that is not set, or set to the empty text, is "".      *)

DefaultMaxRetries == 3

DefaultRetryInterval == 2000

NR_MAX_PAYLOAD_SIZE == 1000 * 1024

\* process.env.X || d
OrDefault(env, d) == IF env = <<>> THEN d ELSE env[1]

RetriesEnv == {<<>>} \cup {<<n>> : n \in 0..MaxRetries}

\* The configurations of an invocation, <<license key, insert key, maximum
\* retries>>: every choice of keys with a single attempt configured, and
\* every choice of retries, none among them, with the license key alone.
Configs ==
    {<<l, i, OrDefault(<<1>>, DefaultMaxRetries)>> :
        l \in Keys("license"), i \in Keys("insert")}
    \cup {<<"license", "", OrDefault(e, DefaultMaxRetries)>> : e \in RetriesEnv}

\* The values of NR_TAGS: not set, empty, "env:prod;team", "team;env:prod",
\* "a:b:c", "a:1;a:2", "a:;:b" and "team".
TagsEnv ==
    { <<>>, << <<>> >>,
      << <<"e", "n", "v", ":", "p", "r", "o", "d", ";", "t", "e", "a", "m">> >>,
      << <<"t", "e", "a", "m", ";", "e", "n", "v", ":", "p", "r", "o", "d">> >>,
      << <<"a", ":", "b", ":", "c">> >>,
      << <<"a", ":", "1", ";", "a", ":", "2">> >>,
      << <<"a", ":", ";", ":", "b">> >>,
      << <<"t", "e", "a", "m">> >> }

\* tags.forEach of getTags, on the entries left.
RECURSIVE TagsFrom(_, _)
TagsFrom(tags, tagsObj) ==
    IF tags = <<>> THEN tagsObj
    ELSE LET keyValue == Split(Head(tags), ":")
         IN  TagsFrom(Tail(tags),
                      IF Len(keyValue) > 1
                      THEN Put(tagsObj, keyValue[1], JStr(keyValue[2]))
                      ELSE tagsObj)

getTags(env) ==
    IF env = <<>> \/ env[1] = <<>> THEN JObj(<<>>)
    ELSE TagsFrom(Split(env[1], ";"), JObj(<<>>))

\* The invocations, <<configuration, NR_TAGS, logMessages>>: every
\* configuration on every input with no tags, and every value of NR_TAGS
\* on a batch of one record.
Invocations ==
    {<<c, <<>>, m>> : c \in Configs, m \in RawInputs}
    \cup {<<<<"license", "", 1>>, t, WrapperOf(Samples(1, 1))>> : t \in TagsEnv}

\* The lengths gzip can give a payload: the two sides of the ceiling.
CompressedLengths == {NR_MAX_PAYLOAD_SIZE, NR_MAX_PAYLOAD_SIZE + 1}

\* The statuses the endpoint answers with: 202, and 200 for every other
\* status, which the code does not tell apart.
Statuses == {200, 202}

----------------------------------------------------------------------------
(* The invocation.                                                         *)
(*                                                                         *)
(* pc is where main is: "start", "await" (at the await of line 49), "done" *)
(* (returned), "threw" (its promise rejected).  calls maps each call of    *)
(* compressAndSend to its state; a call is named by its place in the tree  *)
(* of splits: <<>> is the call of main, p \o <<1>> and p \o <<2>> are the  *)
(* calls of p for the first and the second half.  log is what main wrote   *)
(* to the context's log; each call keeps the lines it wrote itself, so the *)
(* order of lines of concurrent calls is not recorded.                     *)

VARIABLES
    NR_LICENSE_KEY, NR_INSERT_KEY, NR_MAX_RETRIES, NR_RETRY_INTERVAL,
    NR_TAGS, logMessages, pc, buffer, log, calls, failures

config ==
    <<NR_LICENSE_KEY, NR_INSERT_KEY, NR_MAX_RETRIES, NR_RETRY_INTERVAL,
      NR_TAGS>>

vars == <<config, logMessages, pc, buffer, log, calls, failures>>

Init ==
    /\ \E v \in Invocations :
         /\ NR_LICENSE_KEY = v[1][1]
         /\ NR_INSERT_KEY = v[1][2]
         /\ NR_MAX_RETRIES = v[1][3]
         /\ NR_TAGS = v[2]
         /\ logMessages = v[3]
    /\ NR_RETRY_INTERVAL = OrDefault(<<>>, DefaultRetryInterval)
    /\ pc = "start"
    /\ buffer = <<>>
    /\ log = <<>>
    /\ calls = <<>>
    /\ failures = 0

\* The state of a call of compressAndSend(data, context) when it returns its
\* promise: the payload is handed to zlib.gzip.  at is "gzip" (compressing),
\* "all" (awaiting both halves), "request" (an httpSend in flight), "wait"
\* (the timer between two attempts), "settled" (its promise resolved).
\* trace lists its calls of httpSend and wait, with their arguments,
\* attempts lists how the promise of each httpSend was settled and on which
\* event, and rejected counts the attempts that were rejected.  tags is the
\* tags member of the payload's common attributes (getPayload, of
\* compressData), whose other members the model leaves out.
compressAndSend(data) ==
    [data |-> data, tags |-> getTags(NR_TAGS), at |-> "gzip", length |-> 0, retry |-> 0,
     trace |-> <<>>, attempts |-> <<>>, rejected |-> 0, log |-> <<>>,
     outcome |-> "pending"]

Header(name, value) == [name |-> name, value |-> value]

\* Headers that carry the insert key whenever there is one.
InsertKeyFirst(license, insert) ==
    <<Header("Content-Type", "application/json"),
      Header("Content-Encoding", "gzip"),
      IF insert # "" THEN Header("X-Insert-Key", insert)
      ELSE Header("X-License-Key", license)>>

\* options.headers of httpSend.
Headers(license, insert) ==
    <<Header("Content-Type", "application/json"),
      Header("Content-Encoding", "gzip"),
      IF license # "" THEN Header("X-License-Key", license)
      ELSE Header("X-Insert-Key", insert)>>

\* httpSend(data, context), with the headers of its request.
HttpSend(length) ==
    [fn |-> "httpSend", arg |-> length,
     headers |-> Headers(NR_LICENSE_KEY, NR_INSERT_KEY)]

Wait(delay) == [fn |-> "wait", arg |-> delay]

\* A key check that passes when both keys are missing.
NoLicenseKey(license, insert) == license = "" /\ insert # ""

\* The key check of main.
NoKey(license, insert) == license = "" /\ insert = ""

\* A return or a throw of main before compressAndSend is called.
Stop(at, lines, buf) ==
    [pc |-> at, log |-> lines, buffer |-> buf, called |-> FALSE, data |-> <<>>]

\* main from line 48, m being the result of appendMetaDataToAllLogLines.
Enriched(t, m) ==
    IF m.threw THEN Stop("threw", t.log, t.buffer)
    ELSE [pc |-> "await", log |-> t.log, buffer |-> t.buffer, called |-> TRUE,
          data |-> appendTimestampToAllLogLines(m.v).v]

\* A test that takes no buffer for empty.
NeverEmpty(buf) == FALSE

\* buffer.length === 0
IsEmpty(buf) == Len(buf) = 0

\* main from line 43, t being the result of transformData.
Transformed(t) ==
    IF t.threw THEN Stop("threw", t.log, <<>>)
    ELSE IF IsEmpty(t.buffer)
    THEN Stop("done", Append(t.log, Warn("logs format is invalid")), <<>>)
    ELSE Enriched(t, appendMetaDataToAllLogLines(t.buffer))

\* main from line 42, logs being the coerced input.
Coerced(logs) ==
    IF logs.threw THEN Stop("threw", <<>>, <<>>)
    ELSE Transformed(transformData(logs.v))

\* main up to its first await or return: [pc, log, buffer, called, data].
mainSync(license, insert, input) ==
    IF NoKey(license, insert)
    THEN Stop("done",
              <<Error("You have to configure either your LICENSE key or insights insert key. Please follow the instructions in README")>>,
              <<>>)
    ELSE Coerced(Coerce(input))

Entered(r) ==
    /\ pc' = r.pc
    /\ log' = r.log
    /\ buffer' = r.buffer
    /\ calls' = IF r.called THEN (<<>> :> compressAndSend(r.data)) ELSE calls

main ==
    /\ pc = "start"
    /\ Entered(mainSync(NR_LICENSE_KEY, NR_INSERT_KEY, logMessages))
    /\ UNCHANGED <<config, logMessages, failures>>

----------------------------------------------------------------------------
(* compressAndSend, retryMax, httpSend and wait *)

\* A test against the ceiling that lets one more byte through.
IsOversizeAbove(length) == length > NR_MAX_PAYLOAD_SIZE + 1

IsOversize(length) == length > NR_MAX_PAYLOAD_SIZE

\* A split that takes one record off the front.
halfwayFirst(data) == 1

halfwayThrough(data) == Len(data) \div 2

arrayFirstHalf(data) == SubSeq(data, 1, halfwayThrough(data))

\* A second half that starts one record late.
arraySecondHalfLate(data) == SubSeq(data, halfwayThrough(data) + 2, Len(data))

arraySecondHalf(data) == SubSeq(data, halfwayThrough(data) + 1, Len(data))

Settle(c, outcome, lines) ==
    [c EXCEPT !.at = "settled", !.outcome = outcome, !.log = @ \o lines]

\* A catch that reports a failed compression as a failed delivery.
DeliveryErrorLines ==
    <<Error("Max retries reached: failed to send logs payload to New Relic"),
      Error("Exception: ")>>

\* The catch of compressAndSend's chain.
CompressionErrorLines ==
    <<Error("Error during payload compression."), Error("Exception: ")>>

\* retryMax(fn, retry, interval, fnParams): fn is applied at once.
retryMax(c, retry) ==
    [c EXCEPT !.at = "request", !.retry = retry,
              !.trace = Append(@, HttpSend(c.length))]

\* A test that gives up one attempt early, and one that tries once more.
RetryAgainAboveTwo(retry) == retry > 2

RetryAgainAboveZero(retry) == retry > 0

\* retryMax's test for another attempt.
RetryAgain(retry) == retry > 1

\* A batch of one record over the ceiling that is sent all the same.
SendSingle(c) ==
    [c EXCEPT !.at = "request", !.retry = NR_MAX_RETRIES,
              !.trace = Append(@, HttpSend(c.length))]

\* A batch of one record over the ceiling.
DropSingle(c) ==
    Settle(c, "oversize",
           <<Error("Cannot send the payload as the size of single line exceeds the limit")>>)

\* The then of compressAndSend, for a call c whose payload compressed to
\* c.length: the call's next state, and the calls it starts.
Compressed(c) ==
    IF IsOversize(c.length)
    THEN IF Len(c.data) = 1
         THEN [self |-> DropSingle(c), halves |-> <<>>]
         ELSE [self |-> [c EXCEPT !.at = "all"],
               halves |-> <<compressAndSend(arrayFirstHalf(c.data)),
                            compressAndSend(arraySecondHalf(c.data))>>]
    ELSE [self |-> retryMax(c, NR_MAX_RETRIES), halves |-> <<>>]

\* calls after call p went on as r says.
Continued(p, r) ==
    [q \in DOMAIN calls \cup {p \o <<i>> : i \in 1..Len(r.halves)} |->
       IF q = p THEN r.self
       ELSE IF q \in DOMAIN calls THEN calls[q]
       ELSE r.halves[q[Len(q)]]]

\* zlib.gzip calls back without an error.
gzipped(p, length) ==
    /\ p \in DOMAIN calls
    /\ calls[p].at = "gzip"
    /\ calls' = Continued(p, Compressed([calls[p] EXCEPT !.length = length]))
    /\ UNCHANGED <<config, logMessages, pc, buffer, log, failures>>

\* zlib.gzip calls back with an error: compressData rejects.
gzipFailed(p) ==
    /\ p \in DOMAIN calls
    /\ calls[p].at = "gzip"
    /\ calls' = [calls EXCEPT
                   ![p] = Settle(@, "compression error", CompressionErrorLines)]
    /\ UNCHANGED <<config, logMessages, pc, buffer, log, failures>>

\* The catch of line 87: it logs the failure and JSON.stringify(e).  e.res
\* is the response object of the https module, which refers to its request
\* and back: when stringify throws on it (circular), the catch of line 95
\* logs as well.
Exhausted(c, circular) ==
    Settle(c, "exhausted",
           <<Error("Max retries reached: failed to send logs payload to New Relic")>>
           \o (IF circular THEN CompressionErrorLines
               ELSE <<Error("Exception: ")>>))

\* An attempt was rejected with e.  retryMax waits and tries again, or
\* rejects with e.
Rejected(c, circular) ==
    IF RetryAgain(c.retry)
    THEN [c EXCEPT !.rejected = @ + 1, !.at = "wait",
                   !.trace = Append(@, Wait(NR_RETRY_INTERVAL))]
    ELSE Exhausted([c EXCEPT !.rejected = @ + 1], circular)

GotResponse(status) ==
    Info(IF status = 202 THEN "Got response:202" ELSE "Got response:200")

\* The events that end an attempt: the response's 'end', the request's
\* 'error'.
End(statusCode) == [type |-> "end", statusCode |-> <<statusCode>>]

ErrorEvent == [type |-> "error", statusCode |-> <<>>]

\* How the promise of httpSend is settled: resolve(body), or reject({
\* error, res }), null being <<>>.
Resolve(body) ==
    [settled |-> "resolved", body |-> <<body>>, error |-> <<>>, res |-> <<>>]

Reject(error, res) ==
    [settled |-> "rejected", body |-> <<>>, error |-> error, res |-> res]

\* An end handler that takes every status below 300 for a success.
OnEndBelow300(statusCode) ==
    IF statusCode < 300 THEN Resolve("body")
    ELSE Reject(<<>>, <<End(statusCode)>>)

\* res.on('end', ...)
OnEnd(statusCode) ==
    IF statusCode = 202 THEN Resolve("body")
    ELSE Reject(<<>>, <<End(statusCode)>>)

\* req.on('error', ...)
OnError == Reject(<<"e">>, <<>>)

Attempted(c, event, by) ==
    [c EXCEPT !.attempts = Append(@, [on |-> event, by |-> by])]

\* A retryMax that takes every attempt for a failed one.
SettledAsRejected(c, by, circular) == Rejected(c, circular)

\* The then and the catch of retryMax and of line 84, for the call c whose
\* attempt was settled as by says.
Settled(c, by, circular) ==
    IF by.settled = "resolved"
    THEN Settle(c, "sent",
                <<Info("Logs payload successfully sent to New Relic.")>>)
    ELSE Rejected(c, circular)

\* The end of a response with a status, for the call c that has logged it.
Responded(c, status, circular) ==
    Settled(Attempted(c, End(status), OnEnd(status)), OnEnd(status), circular)

\* The response of an attempt ends with a status.
responded(p, status, circular) ==
    /\ p \in DOMAIN calls
    /\ calls[p].at = "request"
    /\ status # 202 => failures < MaxFailures
    /\ calls' = [calls EXCEPT
                   ![p] = Responded([@ EXCEPT !.log = Append(@, GotResponse(status))],
                                    status, circular)]
    /\ failures' = IF status = 202 THEN failures ELSE failures + 1
    /\ UNCHANGED <<config, logMessages, pc, buffer, log>>

\* The request of an attempt emits 'error'.
requestError(p) ==
    /\ p \in DOMAIN calls
    /\ calls[p].at = "request"
    /\ failures < MaxFailures
    /\ calls' = [calls EXCEPT
                   ![p] = Settled(Attempted(@, ErrorEvent, OnError), OnError, FALSE)]
    /\ failures' = failures + 1
    /\ UNCHANGED <<config, logMessages, pc, buffer, log>>

\* The timer of wait(interval) fires: retryMax(fn, retry - 1, ...).
timer(p) ==
    /\ p \in DOMAIN calls
    /\ calls[p].at = "wait"
    /\ calls' = [calls EXCEPT ![p] = retryMax(@, @.retry - 1)]
    /\ UNCHANGED <<config, logMessages, pc, buffer, log, failures>>

\* A join that is satisfied by one half.
AnySettled(first, second) == first.at = "settled" \/ second.at = "settled"

\* Promise.all of the two halves.
AllSettled(first, second) == first.at = "settled" /\ second.at = "settled"

all(p) ==
    /\ p \in DOMAIN calls
    /\ calls[p].at = "all"
    /\ AllSettled(calls[p \o <<1>>], calls[p \o <<2>>])
    /\ calls' = [calls EXCEPT ![p] = Settle(@, "split", <<>>)]
    /\ UNCHANGED <<config, logMessages, pc, buffer, log, failures>>

\* The await of main.
resume ==
    /\ pc = "await"
    /\ calls[<<>>].at = "settled"
    /\ pc' = "done"
    /\ UNCHANGED <<config, logMessages, buffer, log, calls, failures>>

\* The places a call can have when the batch has at most MaxBatch records.
Places == UNION {[1..n -> {1, 2}] : n \in 0..MaxBatch}

\* The callbacks of the event loop: the completions of compressions, of
\* requests and of timers, and the continuations of settled promises.
Callbacks ==
    \/ \E p \in Places, length \in CompressedLengths : gzipped(p, length)
    \/ \E p \in Places : gzipFailed(p)
    \/ \E p \in Places, status \in Statuses, circular \in BOOLEAN :
         responded(p, status, circular)
    \/ \E p \in Places : requestError(p)
    \/ \E p \in Places : timer(p)
    \/ \E p \in Places : all(p)
    \/ resume

Next == main \/ Callbacks

Spec == Init /\ [][Next]_vars

\* Every callback that is due runs, and every request, compression and
\* timer comes to its end.
FairSpec == Spec /\ WF_vars(Callbacks)

----------------------------------------------------------------------------
(* The splitting alone: main is given a batch of up to MaxSplit records,   *)
(* and only the compressions complete, each on either side of the ceiling. *)

SplitInit ==
    /\ NR_LICENSE_KEY = "license"
    /\ NR_INSERT_KEY = ""
    /\ NR_MAX_RETRIES = OrDefault(<<>>, DefaultMaxRetries)
    /\ NR_RETRY_INTERVAL = OrDefault(<<>>, DefaultRetryInterval)
    /\ NR_TAGS = <<>>
    /\ logMessages \in {WrapperOf(Samples(1, n)) : n \in 1..MaxSplit}
    /\ pc = "start"
    /\ buffer = <<>>
    /\ log = <<>>
    /\ calls = <<>>
    /\ failures = 0

SplitPlaces == UNION {[1..n -> {1, 2}] : n \in 0..MaxSplit}

Compressions ==
    \E p \in SplitPlaces, length \in CompressedLengths : gzipped(p, length)

SplitNext == main \/ Compressions

SplitSpec == SplitInit /\ [][SplitNext]_vars

\* Every compression comes to its end.
FairSplitSpec == SplitSpec /\ WF_vars(Compressions)

----------------------------------------------------------------------------
(* Properties *)

HasSplit(c) == c.at = "all" \/ c.outcome = "split"

\* The leaves of the tree of splits: the calls that have not split.
Leaves == {p \in DOMAIN calls : ~HasSplit(calls[p])}

\* The number of calls of fn in a trace.
Calls(trace, fn) == Cardinality({i \in 1..Len(trace) : trace[i].fn = fn})

\* The number of lines of a log with the message msg.
LinesWith(lines, msg) == Cardinality({i \in 1..Len(lines) : lines[i].msg = msg})

Dispatched == pc \in {"await", "done"} /\ calls # <<>>

Max(a, b) == IF a >= b THEN a ELSE b

\* C1: every payload handed to httpSend, on the first attempt and on every
\* retry, is at most NR_MAX_PAYLOAD_SIZE long.
PayloadWithinCeiling ==
    \A p \in DOMAIN calls : \A i \in 1..Len(calls[p].trace) :
        calls[p].trace[i].fn = "httpSend"
            => calls[p].trace[i].arg <= 1000 * 1024

\* A half of a split batch is sent a second time, its payload exactly at
\* the ceiling.
RetriedAtCeiling ==
    \E p \in DOMAIN calls :
        /\ p # <<>>
        /\ Len(calls[p].trace) >= 3
        /\ calls[p].trace[3] = HttpSend(1000 * 1024)

\* The data of the leaves below p, in split order.
RECURSIVE LeafData(_)
LeafData(p) ==
    IF HasSplit(calls[p])
    THEN LeafData(p \o <<1>>) \o LeafData(p \o <<2>>)
    ELSE calls[p].data

\* C2: the leaves of the bisection, first half before second half, make up
\* the batch handed to compressAndSend: no record lost, doubled or moved.
LeavesMakeBatch ==
    Dispatched
        => /\ LeafData(<<>>) = calls[<<>>].data
           /\ \A p \in Leaves : calls[p].data # <<>>

\* A batch of three records is split down to three leaves of one record,
\* which all came to an end.
SplitToSingles ==
    /\ pc = "done"
    /\ calls # <<>>
    /\ Len(calls[<<>>].data) = 3
    /\ Cardinality(Leaves) = 3
    /\ \A p \in Leaves : calls[p].at = "settled"

\* C3: main completes normally for every input: no exception leaves it.
MainNeverThrows == pc # "threw"

\* C4: the trace of a call is httpSend, wait, httpSend, ...: each attempt
\* but the first follows a wait of the configured interval, which follows a
\* rejected attempt; a call does not give up while fewer than N attempts
\* were rejected; a call whose attempt succeeded after k rejections made
\* k + 1 attempts and k waits, logged success and logged no error.
RetryUntilSuccess ==
    \A p \in DOMAIN calls :
        LET c == calls[p] IN
        /\ \A i \in 1..Len(c.trace) :
               c.trace[i] = IF i % 2 = 1 THEN HttpSend(c.length)
                            ELSE Wait(NR_RETRY_INTERVAL)
        /\ Calls(c.trace, "wait") =
               IF c.at = "wait" \/ c.trace = <<>> THEN c.rejected
               ELSE Calls(c.trace, "httpSend") - 1
        /\ (c.trace # <<>> /\ c.rejected < NR_MAX_RETRIES)
               => c.outcome \in {"pending", "sent"}
        /\ c.outcome = "sent"
               => /\ Calls(c.trace, "httpSend") = c.rejected + 1
                  /\ Calls(c.trace, "wait") = c.rejected
                  /\ c.log[Len(c.log)] =
                         Info("Logs payload successfully sent to New Relic.")
                  /\ \A i \in 1..Len(c.log) : c.log[i].level = "info"

\* With three attempts allowed, a call is rejected twice and then succeeds.
SentAtThirdAttempt ==
    \E p \in DOMAIN calls :
        /\ NR_MAX_RETRIES = 3
        /\ calls[p].outcome = "sent"
        /\ calls[p].rejected = 2
        /\ Calls(calls[p].trace, "httpSend") = 3

MaxRetriesLine ==
    "Max retries reached: failed to send logs payload to New Relic"

\* C5 as stated: never more than N attempts for one call, and exactly N
\* when every attempt fails, for every configured N.
AtMostNAttempts ==
    \A p \in DOMAIN calls :
        /\ Calls(calls[p].trace, "httpSend") <= NR_MAX_RETRIES
        /\ calls[p].outcome = "exhausted"
               => Calls(calls[p].trace, "httpSend") = NR_MAX_RETRIES

AttemptsBounded ==
    \A p \in DOMAIN calls :
        LET c == calls[p] IN
        /\ Calls(c.trace, "httpSend") <= Max(NR_MAX_RETRIES, 1)
        /\ c.outcome = "exhausted"
               => /\ Calls(c.trace, "httpSend") = Max(NR_MAX_RETRIES, 1)
                  /\ c.rejected = Max(NR_MAX_RETRIES, 1)
                  /\ LinesWith(c.log, MaxRetriesLine) = 1
        /\ c.outcome # "exhausted" => LinesWith(c.log, MaxRetriesLine) = 0

\* C5, amended: a call makes at most max(N, 1) attempts (the first attempt
\* is made whatever N is); when every attempt fails it makes exactly
\* max(N, 1), logs 'Max retries reached' once, and does nothing more.
ExhaustedAfterNAttempts ==
    /\ []AttemptsBounded
    /\ [][\A p \in DOMAIN calls :
            calls[p].outcome = "exhausted" => calls'[p] = calls[p]]_vars

\* With three attempts allowed, all three attempts of a call fail.
ExhaustedAtThree ==
    \E p \in DOMAIN calls :
        /\ NR_MAX_RETRIES = 3
        /\ calls[p].outcome = "exhausted"
        /\ Calls(calls[p].trace, "httpSend") = 3

HasSettled(p) == p \in DOMAIN calls /\ calls[p].at = "settled"

JoinedAfterHalves ==
    /\ \A p \in DOMAIN calls :
           (calls[p].outcome = "split" /\ calls[p].at = "settled")
               => HasSettled(p \o <<1>>) /\ HasSettled(p \o <<2>>)
    /\ pc = "done" => \A p \in DOMAIN calls : calls[p].at = "settled"

\* C6: a call that split comes to an end only after both halves came to
\* an end, whatever their outcomes; main comes to an end only after every
\* call of the tree did; and, the steps being taken fairly, main does come
\* to an end once it awaits the tree.
SplitJoins ==
    /\ []JoinedAfterHalves
    /\ (pc = "await") ~> (pc = "done")

\* main has come to an end over a split whose first half was given up
\* after the last retry and whose second half was sent.
JoinedMixedHalves ==
    /\ pc = "done"
    /\ HasSettled(<<1>>) /\ calls[<<1>>].outcome = "exhausted"
    /\ HasSettled(<<2>>) /\ calls[<<2>>].outcome = "sent"

\* A call of one record whose compressed payload is over the ceiling.
OversizeSingle(c) ==
    /\ Len(c.data) = 1
    /\ c.at # "gzip"
    /\ c.length > 1000 * 1024

\* C7: a record that alone compresses to more than the ceiling is dropped
\* with one error line: it is never handed to httpSend, never retried and
\* never split; and the other leaves still come to their own outcome.
OversizeSingleDropped ==
    /\ \A p \in DOMAIN calls :
           OversizeSingle(calls[p])
               => /\ calls[p].outcome = "oversize"
                  /\ calls[p].at = "settled"
                  /\ calls[p].trace = <<>>
                  /\ calls[p].log =
                         <<Error("Cannot send the payload as the size of single line exceeds the limit")>>
                  /\ p \o <<1>> \notin DOMAIN calls
                  /\ p \o <<2>> \notin DOMAIN calls
    /\ pc = "done"
           => \A p \in Leaves : calls[p].outcome \notin {"pending", "split"}

\* The first half of a split is one record that is dropped as oversize,
\* and the second half has been sent.
DroppedBesideSent ==
    /\ pc = "done"
    /\ <<1>> \in DOMAIN calls
    /\ OversizeSingle(calls[<<1>>])
    /\ calls[<<1>>].outcome = "oversize"
    /\ calls[<<2>>].outcome = "sent"

\* C8: with neither key configured main logs one error and returns: no
\* normalization, no enrichment, no compression, no attempt to send.
NoKeyNoWork ==
    (NR_LICENSE_KEY = "" /\ NR_INSERT_KEY = "" /\ pc # "start")
        => /\ pc = "done"
           /\ log = <<Error("You have to configure either your LICENSE key or insights insert key. Please follow the instructions in README")>>
           /\ buffer = <<>>
           /\ calls = <<>>

\* main has returned, without keys, from a batch it could have forwarded.
ReturnedWithoutKeys ==
    /\ NR_LICENSE_KEY = "" /\ NR_INSERT_KEY = ""
    /\ pc = "done"
    /\ logMessages = TextOf(WrapperOf(Samples(1, 2)))

E2EInput == logMessages \in {JStr(E2EText), E2EObject}

\* C9 as stated: the one record that is forwarded is the object itself,
\* enriched with subscriptionId, resourceGroup, source and a timestamp.
E2EObjectEnriched ==
    (E2EInput /\ Dispatched)
        => LET rec == calls[<<>>].data[1]
               meta == Get(rec, K_metadata) IN
           /\ Len(calls[<<>>].data) = 1
           /\ Get(meta, K_subscriptionId) = JStr(<<"a", "b", "c">>)
           /\ Get(meta, K_resourceGroup) = JStr(<<"r", "g", "1">>)
           /\ Get(meta, K_source) =
                  JStr(<<"a", "z", "u", "r", "e", ".", "c", "o", "m", "p", "u", "t", "e">>)
           /\ HasKey(rec, K_timestamp)

\* C9, amended: the one JSON object, given as text or parsed, is forwarded
\* as exactly one record {message: <the object>}; the object under message
\* is unchanged, and the record has no metadata, azure, displayName or
\* timestamp member, as it has no resourceId and no time of its own.
E2EObjectWrapped ==
    (E2EInput /\ pc # "start" /\ ~(NR_LICENSE_KEY = "" /\ NR_INSERT_KEY = ""))
        => /\ Dispatched
           /\ calls[<<>>].data = <<JObj(<<Member(K_message, E2EObject)>>)>>
           /\ buffer = calls[<<>>].data

\* The one JSON object was given as text, and its record has been sent.
E2ETextSent ==
    /\ logMessages = JStr(E2EText)
    /\ pc = "done"
    /\ calls # <<>>
    /\ calls[<<>>].outcome = "sent"

\* The parsed elements of the input, as transformData gets them.
ParsedInput == parseData(Coerce(logMessages).v).v.v

IsRecordsArray(x) == HasKey(x, K_records) /\ IsArray(Get(x, K_records))

\* The records of the elements i.. of a parsed input that have an array of
\* records.
RECURSIVE RecordsFrom(_, _)
RecordsFrom(parsed, i) ==
    IF i > Len(parsed) THEN <<>>
    ELSE (IF IsRecordsArray(parsed[i])
          THEN Get(parsed[i], K_records).v ELSE <<>>)
         \o RecordsFrom(parsed, i + 1)

ClassifiedAsRecords ==
    /\ ~Coerce(logMessages).threw
    /\ ParsedInput # <<>>
    /\ ParsedInput[1].t = "obj"
    /\ Get(ParsedInput[1], K_records).t # "undef"

\* C10: for an input classified as a sequence of records-wrappers, the
\* normalizer returns, in order, the records of every element.
RecordsFlattened ==
    (ClassifiedAsRecords /\ pc # "start"
        /\ ~(NR_LICENSE_KEY = "" /\ NR_INSERT_KEY = ""))
        => buffer = RecordsFrom(ParsedInput, 1)

\* The elements of the sequence handed to transformData.
GivenInput == Coerce(logMessages).v.v

Configured == ~(NR_LICENSE_KEY = "" /\ NR_INSERT_KEY = "")

\* main has run up to its return or its await, and no callback has run
\* yet: buffer holds what transformData returned.
Normalizing ==
    /\ Configured
    /\ pc # "start"
    /\ calls # <<>> => DOMAIN calls = {<<>>} /\ calls[<<>>].at = "gzip"
    /\ ~Coerce(logMessages).threw

\* C11 as stated: when every element of the sequence is a text that parses
\* as a plain string, the output is {message: s} for each element s as it
\* was given.
StringsWrappedAsGiven ==
    (/\ Normalizing
     /\ GivenInput # <<>>
     /\ \A i \in 1..Len(GivenInput) :
            /\ GivenInput[i].t = "str"
            /\ JSONParse(GivenInput[i]).ok
            /\ JSONParse(GivenInput[i]).v.t = "str")
        => buffer = [i \in 1..Len(GivenInput) |->
                       JObj(<<Member(K_message, GivenInput[i])>>)]

\* C11, amended: when parseData yields plain strings only (the parsed
\* strings when every element parses, the elements as given when one does
\* not), the output is {message: s} for each of these strings s, as many
\* as the input has elements and in the same order.
StringsWrapped ==
    (/\ Normalizing
     /\ ParsedInput # <<>>
     /\ \A i \in 1..Len(ParsedInput) : ParsedInput[i].t = "str")
        => /\ pc # "threw"
           /\ Len(buffer) = Len(GivenInput)
           /\ buffer = [i \in 1..Len(ParsedInput) |->
                          JObj(<<Member(K_message, ParsedInput[i])>>)]

\* Two texts that parse as plain strings were given, and their records
\* have been sent.
QuotedStringsSent ==
    /\ logMessages = JArr(<<TextOf(PlainA), TextOf(PlainB)>>)
    /\ pc = "done"
    /\ buffer = <<JObj(<<Member(K_message, PlainA)>>),
                  JObj(<<Member(K_message, PlainB)>>)>>
    /\ calls[<<>>].outcome = "sent"

\* The attempts of a call that have been settled.
SettledAttempts(c) ==
    Calls(c.trace, "httpSend") - (IF c.at = "request" THEN 1 ELSE 0)

\* C12: the promise of each httpSend is settled once: resolved if and only
\* if the response ended with status 202, rejected with the response (and
\* no error) when it ended with another status, rejected with the error
\* (and no response) when the request failed.
SettledByResponse ==
    \A p \in DOMAIN calls :
        LET c == calls[p] IN
        /\ Len(c.attempts) = SettledAttempts(c)
        /\ \A i \in 1..Len(c.attempts) :
               LET a == c.attempts[i] IN
               /\ a.by.settled \in {"resolved", "rejected"}
               /\ a.by.settled = "resolved"
                      <=> (a.on.type = "end" /\ a.on.statusCode = <<202>>)
               /\ (a.on.type = "end" /\ a.on.statusCode # <<202>>)
                      => (a.by.error = <<>> /\ a.by.res = <<a.on>>)
               /\ a.on.type = "error"
                      => (a.by.error = <<"e">> /\ a.by.res = <<>>)
               /\ a.by.settled = "resolved" => i = Len(c.attempts)
        /\ c.rejected =
               Cardinality({i \in 1..Len(c.attempts) :
                              c.attempts[i].by.settled = "rejected"})
        /\ c.outcome = "sent"
               <=> (c.attempts # <<>>
                    /\ c.attempts[Len(c.attempts)].by.settled = "resolved")

\* The attempts of a call ended with a request error, with status 200 and
\* with status 202.
ThreeWaysSettled ==
    \E p \in DOMAIN calls :
        /\ Len(calls[p].attempts) = 3
        /\ calls[p].attempts[1].on = ErrorEvent
        /\ calls[p].attempts[2].on = End(200)
        /\ calls[p].attempts[3].on = End(202)

\* The least k with 2^k >= n.
CeilLog2(n) == CHOOSE k \in 0..n : 2^k >= n /\ (k = 0 \/ 2^(k - 1) < n)

Parent(p) == SubSeq(p, 1, Len(p) - 1)

SplitsShrink ==
    calls # <<>> =>
        \A p \in DOMAIN calls :
            /\ Len(p) <= CeilLog2(Len(calls[<<>>].data))
            /\ Len(calls[p].data) >= 1
            /\ p # <<>> => Len(calls[p].data) < Len(calls[Parent(p)].data)
            /\ Len(calls[p].data) = 1 => ~HasSplit(calls[p])

Compressing == \E p \in DOMAIN calls : calls[p].at = "gzip"

\* C13: for a batch of n >= 1 records and any pattern of oversize results,
\* no call is more than ceil(log2(n)) splits below the first, every half
\* is non-empty and smaller than the batch it was split from, a batch of
\* one record is never split, and the splitting comes to an end: once main
\* awaits, a state is reached where no call is compressing.
SplittingTerminates ==
    /\ []SplitsShrink
    /\ (pc = "await") ~> ~Compressing

\* A batch of six records has been split down to six singles, three splits
\* below the first call, and nothing is compressing any more.
SixSingles ==
    /\ calls # <<>>
    /\ Len(calls[<<>>].data) = 6
    /\ Cardinality(Leaves) = 6
    /\ \E p \in Leaves : Len(p) = 3
    /\ ~Compressing

\* addTimestamp(addMetadata(r)): [threw, v].
EnrichedAgain(r) == addTimestamp(addMetadata(r).v)

\* C14: a record that main has enriched and whose resourceId begins with
\* /subscriptions/ is left as it is by a second addMetadata followed by
\* addTimestamp: metadata, azure, displayName, timestamp and every other
\* member are the same.
EnrichmentIdempotent ==
    (Normalizing /\ calls # <<>>)
        => \A i \in 1..Len(calls[<<>>].data) :
               LET r == calls[<<>>].data[i] IN
               (r.t = "obj" /\ IsResourceId(Get(r, K_resourceId)))
                   => EnrichedAgain(r) = Returned(r)

\* main has enriched a record whose resourceId has all its pieces and whose
\* time parses: it has its source, resourceType, displayName and timestamp.
FullyEnriched ==
    /\ Normalizing
    /\ calls # <<>>
    /\ Len(calls[<<>>].data) = 1
    /\ Get(calls[<<>>].data[1], K_resourceId) = JStr(ResourceIdText)
    /\ Get(Get(calls[<<>>].data[1], K_metadata), K_source) =
           JStr(<<"a", "z", "u", "r", "e", ".", "c", "o", "m", "p", "u", "t", "e">>)
    /\ Get(calls[<<>>].data[1], K_displayName) = JStr(<<"v", "m", "1">>)
    /\ Get(Get(calls[<<>>].data[1], K_azure), K_resourceType).t = "str"
    /\ Get(calls[<<>>].data[1], K_timestamp) =
           JNum(<<"1", "6", "7", "2", "5", "3", "1", "2", "0", "0", "0", "0", "0">>)

\* The parsed input is an empty sequence, or its first element is neither
\* an object (an array is one) nor a string.
Unclassifiable ==
    \/ ParsedInput = <<>>
    \/ ParsedInput[1].t \in {"num", "bool", "null", "undef"}

Aborted ==
    /\ pc = "done"
    /\ calls = <<>>
    /\ buffer = <<>>
    /\ log # <<>>
    /\ log[Len(log)] = Warn("logs format is invalid")
    /\ \A i \in 1..Len(log) : log[i].level # "error"

\* C15: when the parsed input is an empty sequence or its first element is
\* neither an object nor a string, and whenever else transformData returns
\* the empty sequence, main logs the warning and returns: nothing is
\* enriched, and there is no call of compressAndSend, so no compression and
\* no delivery attempt.
EmptyAborts ==
    /\ (Normalizing /\ Unclassifiable) => Aborted
    /\ (Configured /\ pc \in {"await", "done"} /\ buffer = <<>>) => Aborted

\* main was given an empty sequence, with a key, and has returned.
EmptySequenceAborted ==
    /\ Configured
    /\ logMessages = JArr(<<>>)
    /\ pc = "done"
    /\ log = <<Warn("logs format is invalid")>>

KeyHeaders(headers) ==
    {i \in 1..Len(headers) :
        headers[i].name \in {"X-License-Key", "X-Insert-Key"}}

\* C16: every request carries exactly one of the headers X-License-Key and
\* X-Insert-Key: the license key, with its value, whenever one is
\* configured, and the insert key, with its value, only when there is no
\* license key.
OneKeyHeader ==
    \A p \in DOMAIN calls :
        \A i \in 1..Len(calls[p].trace) :
            LET r == calls[p].trace[i]
            IN  r.fn = "httpSend" =>
                  /\ Cardinality(KeyHeaders(r.headers)) = 1
                  /\ \A h \in KeyHeaders(r.headers) :
                        /\ r.headers[h].value # ""
                        /\ r.headers[h] =
                             IF NR_LICENSE_KEY # ""
                             THEN Header("X-License-Key", NR_LICENSE_KEY)
                             ELSE Header("X-Insert-Key", NR_INSERT_KEY)

\* With both keys configured a request has gone out and was accepted.
SentWithBothKeys ==
    /\ NR_LICENSE_KEY = "license"
    /\ NR_INSERT_KEY = "insert"
    /\ calls # <<>>
    /\ calls[<<>>].outcome = "sent"

\* The entries of NR_TAGS, and the key and the value of an entry key:value:
\* the text before its first colon and the text after it.
TagEntries == IF NR_TAGS = <<>> THEN <<>> ELSE Split(NR_TAGS[1], ";")

HasColon(entry) == \E i \in 1..Len(entry) : entry[i] = ":"

KeyOf(entry) == SubSeq(entry, 1, FirstIn(entry, {":"}) - 1)

ValueOf(entry) == Drop(entry, FirstIn(entry, {":"}))

\* C17: the tags of a payload hold, for each entry key:value of NR_TAGS
\* (the last one of a key, when a key comes more than once), the pair
\* key -> value, and nothing for an entry without a colon; for
\* "env:prod;team" they are exactly {env: "prod"}.
TagsOfEntries ==
    \A p \in DOMAIN calls :
        LET tags == calls[p].tags
            last == {i \in 1..Len(TagEntries) :
                       /\ HasColon(TagEntries[i])
                       /\ \A j \in (i + 1)..Len(TagEntries) :
                             HasColon(TagEntries[j]) =>
                                KeyOf(TagEntries[j]) # KeyOf(TagEntries[i])}
        IN  /\ \A i \in last :
                  Get(tags, KeyOf(TagEntries[i])) = JStr(ValueOf(TagEntries[i]))
            /\ Len(tags.v) = Cardinality(last)
            /\ NR_TAGS = << <<"e", "n", "v", ":", "p", "r", "o", "d", ";",
                              "t", "e", "a", "m">> >>
                  => tags = JObj(<<Member(<<"e", "n", "v">>,
                                          JStr(<<"p", "r", "o", "d">>))>>)

\* The outcomes that are failures of a call's own.
Failures == {"compression error", "exhausted", "oversize"}

CompressionFailureOnly ==
    \A p \in DOMAIN calls :
        calls[p].outcome = "compression error"
            => /\ calls[p].at = "settled"
               /\ LinesWith(calls[p].log, "Error during payload compression.") = 1
               /\ LinesWith(calls[p].log, MaxRetriesLine) = 0
               /\ calls[p].trace = <<>>
               /\ calls[p].attempts = <<>>
               /\ calls[p].rejected = 0
               /\ {p \o <<1>>, p \o <<2>>} \cap DOMAIN calls = {}

FailureLeavesOthers ==
    \A p \in DOMAIN calls :
        /\ calls[p].outcome # "pending"
              => p \in DOMAIN calls' /\ calls'[p].outcome = calls[p].outcome
        /\ (calls[p].outcome = "pending" /\ p \in DOMAIN calls'
            /\ calls'[p].outcome \in Failures)
              => /\ DOMAIN calls' = DOMAIN calls
                 /\ \A q \in DOMAIN calls \ {p} : calls'[q] = calls[q]

\* C18: a call whose compression failed has logged the compression error,
\* has made no call of httpSend or wait, has not logged a delivery failure
\* and has no halves; the step in which a call fails, in compression or in
\* delivery, changes no other call, and an outcome once reached is kept.
CompressionFailureIsLocal ==
    []CompressionFailureOnly /\ [][FailureLeavesOthers]_vars

\* Of two halves, the first failed in compression and the second was sent.
FailedBesideSent ==
    /\ pc = "done"
    /\ HasSettled(<<1>>) /\ calls[<<1>>].outcome = "compression error"
    /\ HasSettled(<<2>>) /\ calls[<<2>>].outcome = "sent"

\* C19: parseData on a sequence gives the parsed elements, in order, when
\* JSON.parse accepts every element, and the sequence itself, no element
\* replaced, when JSON.parse throws on one of them, wherever it stands.
ParsedAllOrNone ==
    Normalizing
        => LET each == [i \in 1..Len(GivenInput) |-> JSONParse(GivenInput[i])]
           IN  /\ Len(ParsedInput) = Len(GivenInput)
               /\ (\A i \in 1..Len(each) : each[i].ok)
                     => \A i \in 1..Len(each) : ParsedInput[i] = each[i].v
               /\ (\E i \in 1..Len(each) : ~each[i].ok)
                     => ParsedInput = GivenInput

\* main was given [5, "a", '{"n":1}']: the first and the last element
\* parse, the second does not, and the sequence was kept as it is.
MiddleElementFails ==
    /\ Normalizing
    /\ logMessages = JArr(<<JNum(<<"5">>), PlainA, TextOf(Sample(1))>>)
    /\ JSONParse(GivenInput[1]).ok
    /\ ~JSONParse(GivenInput[2]).ok
    /\ JSONParse(GivenInput[3]).ok
    /\ ParsedInput = GivenInput
    /\ pc = "done"

\* Where the batch of the call at place p begins in the batch of main.
RECURSIVE Offset(_)
Offset(p) ==
    IF p = <<>> THEN 0
    ELSE Offset(Parent(p))
         + (IF p[Len(p)] = 2 THEN Len(calls[Parent(p) \o <<1>>].data) ELSE 0)

\* The places in main's batch of the records of the call at place p.
Positions(p) == (Offset(p) + 1)..(Offset(p) + Len(calls[p].data))

Delivered == {p \in DOMAIN calls : calls[p].outcome = "sent"}

DeliveredOnce ==
    /\ \A p \in DOMAIN calls :
          LET c == calls[p]
              resolved == {i \in 1..Len(c.attempts) :
                             c.attempts[i].by.settled = "resolved"}
          IN  /\ c.data = SubSeq(calls[<<>>].data, Offset(p) + 1,
                                 Offset(p) + Len(c.data))
              /\ resolved # {} <=> c.outcome = "sent"
              /\ resolved \subseteq {Len(c.attempts)}
              /\ c.outcome = "sent"
                    => /\ c.at = "settled"
                       /\ Calls(c.trace, "httpSend") = Len(c.attempts)
                       /\ c.trace[Len(c.trace)].fn = "httpSend"
                       /\ {p \o <<1>>, p \o <<2>>} \cap DOMAIN calls = {}
              /\ \A i \in 1..Len(c.trace) :
                    c.trace[i].fn = "httpSend" => c.trace[i].arg = c.length
    /\ \A p, q \in Delivered : p # q => Positions(p) \cap Positions(q) = {}

PayloadKept ==
    \A p \in DOMAIN calls :
        /\ calls[p].outcome = "sent" => calls'[p] = calls[p]
        /\ calls[p].at \in {"request", "wait"}
              => /\ calls'[p].at \in {"request", "wait", "settled"}
                 /\ calls'[p].data = calls[p].data
                 /\ calls'[p].length = calls[p].length
                 /\ calls'[p].tags = calls[p].tags
                 /\ {p \o <<1>>, p \o <<2>>} \cap DOMAIN calls' = {}

\* C20: a call whose httpSend was answered with 202 makes no further
\* attempt and never changes again; the calls that were sent hold disjoint
\* parts of main's batch, so a record is in at most one delivered payload;
\* every attempt of a call hands httpSend the one payload the call
\* compressed, and a call that is sending neither compresses nor splits
\* again.
DeliveredAtMostOnce == []DeliveredOnce /\ [][PayloadKept]_vars

\* Both halves were sent, the first on its second attempt.
HalvesSentOneRetried ==
    /\ pc = "done"
    /\ HasSettled(<<1>>) /\ calls[<<1>>].outcome = "sent"
    /\ Calls(calls[<<1>>].trace, "httpSend") = 2
    /\ HasSettled(<<2>>) /\ calls[<<2>>].outcome = "sent"
    /\ Positions(<<1>>) = {1}
    /\ Positions(<<2>>) = {2}

====
